---- MODULE Spec2Model ----
(***************************************************************************)
(* A model of marge's merge job (marge/job.py): the methods of MergeJob    *)
(* as labelled steps over the job's snapshot of the merge request, the     *)
(* forge's own state (which users and the forge change concurrently), the  *)
(* wall clock and the Git working copy.                                    *)
(***************************************************************************)
EXTENDS Integers, Sequences, FiniteSets, TLC

(* ------------------------------ bounds -------------------------------- *)

\* embargo intervals lie in 0..MaxEmbargo (seconds since the job began)
MaxEmbargo == 1
\* changes made to the forge by others while one call runs
MaxExternal == 1
\* ci_timeout is at most 5 * MaxCiTimeout seconds
MaxCiTimeout == 4
\* approval_timeout is at most 5 * MaxApprovalTimeout seconds
MaxApprovalTimeout == 3

(* --------------------------- program values --------------------------- *)

\* self._user.id, the bot's own user id; the MR's author may be the bot
BotId == "marge"
Users == {"marge", "alice"}

MergeStrategy == {"merge", "rebase", "rebase_then_merge"}

MRStates == {"opened", "reopened", "locked", "merged", "closed", "unknown"}

\* an embargo is a union of closed intervals <<from, to>> of instants
Intervals == {iv \in (0..MaxEmbargo) \X (0..MaxEmbargo) : iv[1] <= iv[2]}
Embargoes == {{}} \cup {{iv} : iv \in Intervals}

covers(embargo, instant) ==
    \E iv \in embargo : iv[1] <= instant /\ instant <= iv[2]

\* MergeJobOptions.default(): every switch off, no embargo, strategy rebase
DefaultOptions ==
    [add_tested |-> FALSE, add_part_of |-> FALSE, add_reviewers |-> FALSE,
     reapprove |-> FALSE, approval_timeout |-> 0, embargo |-> {},
     ci_timeout |-> 15 * 60, merge_strategy |-> "rebase",
     require_ci_run_by_me |-> FALSE, ci_timeout_skip |-> FALSE]

requests_commit_tagging(o) ==
    o.add_tested \/ o.add_part_of \/ o.add_reviewers

(* ----------------------------- exceptions ----------------------------- *)

NoExc == [kind |-> "none", reason |-> ""]
CannotMerge(reason) == [kind |-> "CannotMerge", reason |-> reason]
SkipMerge(reason) == [kind |-> "SkipMerge", reason |-> reason]
GitError(reason) == [kind |-> "GitError", reason |-> reason]

\* SkipMerge is a subclass of CannotMerge
IsCannotMerge(e) == e.kind \in {"CannotMerge", "SkipMerge"}
IsSkipMerge(e) == e.kind = "SkipMerge"

\* --merge-strategy: not given, one of the choices, or anything else
StrategyArgs == {"absent"} \cup MergeStrategy \cup {"squash"}

\* marge started without any setting
NoArgs ==
    [use_merge_strategy |-> FALSE, merge_strategy |-> "absent",
     add_tested |-> FALSE, batch |-> FALSE, add_part_of |-> FALSE,
     cli_args |-> {}]

\* no Namespace yet
NoConfig == <<>>

(* ------------------------------- state -------------------------------- *)

VARIABLES
    opts,        \* self._options
    now,         \* the wall clock, in seconds
    fn,          \* the method of MergeJob that is running
    pc,          \* the place in that method
    exc,         \* the exception the method raised, NoExc while none
    mr,          \* merge_request.info: the job's snapshot of the MR
    forge,       \* the forge's side: assignees, approvals, source branch head
    external,    \* changes others made to the forge so far
    loc,         \* the locals of the running method
    calls,       \* the writes the job has sent to the forge, counted
    project,     \* self._project, the target project
    git,         \* self._repo: the branch checked out, the local branches
    args,        \* the settings marge was started with
    config       \* the Namespace _parse_config works on

vars == <<opts, now, fn, pc, exc, mr, forge, external, loc, calls, project,
          git, args, config>>

Branches == {"master", "feature"}

Shas == {"sha_a", "sha_b"}

\* the attributes of the MR that users edit on the forge and the job only
\* reads: each refetch_info() may find any of them
Editable == [work_in_progress : BOOLEAN, squash : BOOLEAN, state : MRStates]

\* the MR as the scheduler listed it: open and assigned to the bot
ListedMR(author, sha) ==
    [work_in_progress |-> FALSE, squash |-> FALSE, state |-> "opened",
     assignee_ids |-> {BotId}, author_id |-> author, sha |-> sha,
     source_branch |-> "feature", target_branch |-> "master",
     source_project_id |-> "project"]

\* the target project: its id and whether it merges only on a green pipeline
Projects == [id : {"project"}, only_allow_merge_if_pipeline_succeeds : BOOLEAN]

\* the working copy between two jobs: master checked out
CleanGit == [head |-> "master", local |-> {"master"}]

\* the locals before the method has bound them; approvals holds the
\* `sufficient` of the approvals last fetched, and nothing before a fetch
NoLoc ==
    [approvals |-> {}, embargo_at |-> -1, time_0 |-> -1,
     commit_sha |-> "None", ci_status |-> "None", pipelines |-> <<>>,
     source_repo_url |-> "None", branch_updated |-> FALSE,
     branch_rewritten |-> FALSE, changes_pushed |-> FALSE,
     updated_sha |-> "unbound", target_sha |-> "unbound",
     rewritten_sha |-> "unbound", sha |-> "None", git_error |-> "",
     pending |-> NoExc, trailers |-> <<>>, protected |-> "none",
     fetched |-> <<>>, source_project |-> "None", remote |-> "None",
     fused_with |-> "unbound", pushed_to |-> "unbound", cleanup |-> <<>>,
     pushes |-> <<>>, looked_up |-> FALSE]

NoCalls ==
    [start |-> 0, reapprove |-> 0, assign_to |-> 0, unassign |-> 0, push |-> 0]

Running == pc \notin {"return", "raise", "done", "fatal"}

Finish(e) ==
    /\ exc' = e
    /\ pc' = IF e = NoExc THEN "return" ELSE "raise"

(* ------------------------- the forge's own moves ---------------------- *)

\* a user assigns the MR to somebody else, or back to the bot
ExternalAssign ==
    /\ Running
    /\ external < MaxExternal
    /\ \E a \in {{u} : u \in Users} \ {forge.assignee_ids} :
        forge' = [forge EXCEPT !.assignee_ids = a]
    /\ external' = external + 1
    /\ UNCHANGED <<opts, now, fn, pc, exc, mr, loc, calls, project, git, args, config>>

\* approvals are reset by the forge after a push, or given again by users
ExternalApprovalChange ==
    /\ Running
    /\ external < MaxExternal
    /\ forge' = [forge EXCEPT !.sufficient = ~forge.sufficient]
    /\ external' = external + 1
    /\ UNCHANGED <<opts, now, fn, pc, exc, mr, loc, calls, project, git, args, config>>

\* someone pushes to the source branch
ExternalPush ==
    /\ Running
    /\ external < MaxExternal
    /\ \E h \in Shas \ {forge.head} : forge' = [forge EXCEPT !.head = h]
    /\ external' = external + 1
    /\ UNCHANGED <<opts, now, fn, pc, exc, mr, loc, calls, project, git, args, config>>

(* ------------------------- ensure_mergeable_mr ------------------------ *)

\* the checks made on the snapshot right after refetch_info()
EnsureSnapshot(m, o) ==
    IF m.work_in_progress
    THEN CannotMerge("Sorry, I can't merge requests marked as Work-In-Progress!")
    ELSE IF m.squash /\ requests_commit_tagging(o)
    THEN CannotMerge("Sorry, merging requests marked as auto-squash would ruin my commit tagging!")
    ELSE NoExc

\* 'The merge request is already {}!'.format(state)
AlreadyIn(state) ==
    IF state = "merged" THEN "The merge request is already merged!"
    ELSE "The merge request is already closed!"

\* a faulty variant: the state is looked at before the approvals
EnsureStateThenApprovals(m, sufficient) ==
    IF m.state \in {"merged", "closed"}
    THEN SkipMerge(AlreadyIn(m.state))
    ELSE IF m.state \notin {"opened", "reopened", "locked"}
    THEN CannotMerge("The merge request is in an unknown state")
    ELSE IF ~sufficient
    THEN CannotMerge("Insufficient approvals")
    ELSE NoExc

\* the checks made once fetch_approvals() has answered
EnsureApprovalsAndState(m, sufficient) ==
    IF ~sufficient
    THEN CannotMerge("Insufficient approvals")
    ELSE IF m.state \notin {"opened", "reopened", "locked"}
    THEN IF m.state \in {"merged", "closed"}
         THEN SkipMerge(AlreadyIn(m.state))
         ELSE CannotMerge("The merge request is in an unknown state")
    ELSE NoExc

\* a faulty variant: the embargo is asked about the next instant
during_merge_embargo_late(o, instant) == covers(o.embargo, instant + 1)

during_merge_embargo(o, instant) == covers(o.embargo, instant)

\* the last two checks: the embargo at this instant, then the assignment
EnsureEmbargoAndAssignee(m, o, instant) ==
    IF during_merge_embargo(o, instant)
    THEN SkipMerge("Merge embargo!")
    ELSE IF BotId \notin m.assignee_ids
    THEN SkipMerge("It is not assigned to me anymore!")
    ELSE NoExc

\* merge_request.refetch_info(), then the work-in-progress and squash checks
EnsureRefetch ==
    /\ fn = "ensure_mergeable_mr" /\ pc = "refetch_info"
    /\ \E found \in Editable :
        LET m == [mr EXCEPT !.work_in_progress = found.work_in_progress,
                            !.squash = found.squash,
                            !.state = found.state,
                            !.assignee_ids = forge.assignee_ids]
            e == EnsureSnapshot(m, opts)
        IN  /\ mr' = m
            /\ IF e = NoExc
               THEN pc' = "fetch_approvals" /\ exc' = exc
               ELSE Finish(e)
    /\ UNCHANGED <<opts, now, fn, forge, external, loc, calls, project, git, args, config>>

\* merge_request.fetch_approvals(), then the approvals and the state checks
EnsureApprovals ==
    /\ fn = "ensure_mergeable_mr" /\ pc = "fetch_approvals"
    /\ loc' = [loc EXCEPT !.approvals = {forge.sufficient}]
    /\ LET e == EnsureApprovalsAndState(mr, forge.sufficient) IN
        IF e = NoExc
        THEN pc' = "during_merge_embargo" /\ exc' = exc
        ELSE Finish(e)
    /\ UNCHANGED <<opts, now, fn, mr, forge, external, calls, project, git, args, config>>

\* during_merge_embargo() reads the clock; then the assignee check
EnsureEmbargo ==
    /\ fn = "ensure_mergeable_mr" /\ pc = "during_merge_embargo"
    /\ loc' = [loc EXCEPT !.embargo_at = now]
    /\ Finish(EnsureEmbargoAndAssignee(mr, opts, now))
    /\ UNCHANGED <<opts, now, fn, mr, forge, external, calls, project, git, args, config>>

ensure_mergeable_mr == EnsureRefetch \/ EnsureApprovals \/ EnsureEmbargo

(* ------------------------- wait_for_ci_to_pass ------------------------ *)

\* waiting_time_in_secs of wait_for_ci_to_pass
CiWaitingTime == 10

\* the statuses of a pipeline; "manual" is one the method does not know
Statuses ==
    {"created", "pending", "running", "success", "failed", "canceled",
     "skipped", "manual"}

Pipelines == [sha : Shas, status : Statuses]

\* what Pipeline.pipelines_by_branch may answer, newest first; a pipeline
\* that a newer one of the same sha comes before is left out
Listings ==
    {<<>>} \cup {<<p>> : p \in Pipelines}
           \cup {pq \in Pipelines \X Pipelines : pq[1].sha # pq[2].sha}

ListedShas(listing) == {listing[i].sha : i \in DOMAIN listing}

\* a faulty variant: the newest pipeline of the branch, whatever its sha
get_mr_ci_status_of_branch(listing, commit_sha) ==
    IF listing = <<>> THEN "None" ELSE listing[1].status

\* get_mr_ci_status: the status of the first pipeline on commit_sha, or
\* "None" when no pipeline is listed for it
get_mr_ci_status(listing, commit_sha) ==
    LET hits == {i \in DOMAIN listing : listing[i].sha = commit_sha} IN
    IF hits = {} THEN "None"
    ELSE listing[CHOOSE i \in hits : \A j \in hits : i <= j].status

\* a faulty variant: a failed or canceled pipeline is waited for
CiRound_waits_on_failure(ci_status, ci_run_by_me) ==
    IF ci_status \in {"success", "skipped"} THEN "return"
    ELSE IF ci_status = "None" /\ ci_run_by_me THEN "start"
    ELSE "sleep"

\* what one round of the loop does with the status it found
CiRound(ci_status, ci_run_by_me) ==
    IF ci_status = "success" THEN "return"
    ELSE IF ci_status = "skipped" THEN "return"
    ELSE IF ci_status = "failed" THEN "failed"
    ELSE IF ci_status = "canceled" THEN "canceled"
    ELSE IF ci_status = "None" /\ ci_run_by_me THEN "start"
    ELSE "sleep"

\* a faulty variant: one more round at the deadline itself
CiInTime_inclusive(instant, time_0, o) == instant - time_0 <= o.ci_timeout

\* the loop's test: datetime.utcnow() - time_0 < ci_timeout
CiInTime(instant, time_0, o) == instant - time_0 < o.ci_timeout

\* a faulty variant: ci_timeout_skip is not looked at
CiTimedOut_never_skips(o) == CannotMerge("CI is taking too long.")

\* what ends the wait once the loop's test fails
CiTimedOut(o) ==
    IF o.ci_timeout_skip
    THEN SkipMerge("CI is taking too long.")
    ELSE CannotMerge("CI is taking too long.")

\* time_0 and the default of commit_sha
CiEnter ==
    /\ fn = "wait_for_ci_to_pass" /\ pc = "enter"
    /\ loc' = [loc EXCEPT
                 !.time_0 = now,
                 !.commit_sha = IF loc.commit_sha = "None" THEN mr.sha
                                ELSE loc.commit_sha]
    /\ pc' = "while"
    /\ UNCHANGED <<opts, now, fn, exc, mr, forge, external, calls, project, git, args, config>>

\* one round inside the deadline: list the pipelines, look at the status
CiPoll ==
    /\ fn = "wait_for_ci_to_pass" /\ pc = "while"
    /\ CiInTime(now, loc.time_0, opts)
    /\ \E listing \in Listings :
        /\ forge.started \subseteq ListedShas(listing)
        /\ LET ci_status == get_mr_ci_status(listing, loc.commit_sha)
               round == CiRound(ci_status, opts.require_ci_run_by_me)
           IN  /\ loc' = [loc EXCEPT
                            !.ci_status = ci_status,
                            !.pipelines = IF round \in {"start", "sleep"}
                                          THEN <<>> ELSE listing]
               /\ CASE round = "return" -> Finish(NoExc)
                    [] round = "failed" -> Finish(CannotMerge("CI failed!"))
                    [] round = "canceled" ->
                           Finish(CannotMerge("Someone canceled the CI."))
                    [] OTHER -> pc' = round /\ exc' = exc
    /\ UNCHANGED <<opts, now, fn, mr, forge, external, calls, project, git, args, config>>

\* Pipeline.start on the source branch: the forge runs it on the branch head
CiStart ==
    /\ fn = "wait_for_ci_to_pass" /\ pc = "start"
    /\ calls' = [calls EXCEPT !.start = @ + 1]
    /\ forge' = [forge EXCEPT !.started = @ \cup {forge.head}]
    /\ pc' = "sleep"
    /\ UNCHANGED <<opts, now, fn, exc, mr, external, loc, project, git, args, config>>

\* time.sleep(waiting_time_in_secs)
CiSleep ==
    /\ fn = "wait_for_ci_to_pass" /\ pc = "sleep"
    /\ now' = now + CiWaitingTime
    /\ pc' = "while"
    /\ UNCHANGED <<opts, fn, exc, mr, forge, external, loc, calls, project, git, args, config>>

\* the deadline has passed
CiTimeout ==
    /\ fn = "wait_for_ci_to_pass" /\ pc = "while"
    /\ ~CiInTime(now, loc.time_0, opts)
    /\ Finish(CiTimedOut(opts))
    /\ UNCHANGED <<opts, now, fn, mr, forge, external, loc, calls, project, git, args, config>>

wait_for_ci_to_pass == CiEnter \/ CiPoll \/ CiStart \/ CiSleep \/ CiTimeout

(* --------------------------- maybe_reapprove -------------------------- *)

\* waiting_time_in_secs of maybe_reapprove
ApprovalWaitingTime == 5

\* a faulty variant: one more sleep at the deadline itself
ApprovalsNotReset_inclusive(sufficient, instant, time_0, o) ==
    sufficient /\ instant - time_0 <= o.approval_timeout

\* the loop's test, evaluated left to right: sufficient_approvals() and
\* datetime.utcnow() - time_0 < approval_timeout
ApprovalsNotReset(sufficient, instant, time_0, o) ==
    sufficient /\ instant - time_0 < o.approval_timeout

\* a faulty variant: the test after the loop without its "not"
ShouldReapprove_inverted(sufficient) == sufficient

\* the test after the loop: if not sufficient_approvals()
ShouldReapprove(sufficient) == ~sufficient

\* if self.opts.reapprove: time_0 = datetime.utcnow()
ReapproveEnter ==
    /\ fn = "maybe_reapprove" /\ pc = "enter"
    /\ IF opts.reapprove
       THEN /\ loc' = [loc EXCEPT !.time_0 = now]
            /\ pc' = "while" /\ exc' = exc
       ELSE /\ loc' = loc
            /\ Finish(NoExc)
    /\ UNCHANGED <<opts, now, fn, mr, forge, external, calls, project, git, args, config>>

\* the loop's test: a fetch of the approvals, then the clock
ReapproveWhile ==
    /\ fn = "maybe_reapprove" /\ pc = "while"
    /\ loc' = [loc EXCEPT !.approvals = {forge.sufficient}]
    /\ pc' = IF ApprovalsNotReset(forge.sufficient, now, loc.time_0, opts)
             THEN "sleep" ELSE "if"
    /\ UNCHANGED <<opts, now, fn, exc, mr, forge, external, calls, project, git, args, config>>

\* time.sleep(waiting_time_in_secs)
ReapproveSleep ==
    /\ fn = "maybe_reapprove" /\ pc = "sleep"
    /\ now' = now + ApprovalWaitingTime
    /\ pc' = "while"
    /\ UNCHANGED <<opts, fn, exc, mr, forge, external, loc, calls, project, git, args, config>>

\* after the loop, the approvals are fetched once more
ReapproveIf ==
    /\ fn = "maybe_reapprove" /\ pc = "if"
    /\ loc' = [loc EXCEPT !.approvals = {forge.sufficient}]
    /\ IF ShouldReapprove(forge.sufficient)
       THEN pc' = "reapprove" /\ exc' = exc
       ELSE Finish(NoExc)
    /\ UNCHANGED <<opts, now, fn, mr, forge, external, calls, project, git, args, config>>

\* Approvals.reapprove() on the forge: it fails while the old approvals
\* still exist, and reinstates them otherwise
Reapproved(f) ==
    IF f.sufficient
    THEN [forge |-> f, exc |-> [kind |-> "ApiError", reason |-> "reapprove"]]
    ELSE [forge |-> [f EXCEPT !.sufficient = TRUE], exc |-> NoExc]

\* approvals.reapprove()
ReapproveCall ==
    /\ fn = "maybe_reapprove" /\ pc = "reapprove"
    /\ calls' = [calls EXCEPT !.reapprove = @ + 1]
    /\ forge' = Reapproved(forge).forge
    /\ Finish(Reapproved(forge).exc)
    /\ UNCHANGED <<opts, now, fn, mr, external, loc, project, git, args, config>>

maybe_reapprove ==
    ReapproveEnter \/ ReapproveWhile \/ ReapproveSleep \/ ReapproveIf
        \/ ReapproveCall

(* --------------------------- unassign_from_mr ------------------------- *)

\* MergeRequest.assign_to(user_id) on the forge: the MR goes to that user
AssignTo(f, user_id) == [f EXCEPT !.assignee_ids = {user_id}]

\* MergeRequest.unassign() on the forge: the bot is dropped from the assignees
Unassign(f) == [f EXCEPT !.assignee_ids = @ \ {BotId}]

\* a faulty variant: the comparison of the author with the bot the wrong
\* way round
UnassignTo_inverted(m) == IF m.author_id = BotId THEN m.author_id ELSE "nobody"

\* whom unassign_from_mr hands the MR to: the author, or "nobody" (unassign)
UnassignTo(m) == IF m.author_id # BotId THEN m.author_id ELSE "nobody"

\* merge_request.assign_to(author_id) or merge_request.unassign()
UnassignCall ==
    /\ fn = "unassign_from_mr" /\ pc = "enter"
    /\ LET to == UnassignTo(mr) IN
        IF to = "nobody"
        THEN /\ calls' = [calls EXCEPT !.unassign = @ + 1]
             /\ forge' = Unassign(forge)
        ELSE /\ calls' = [calls EXCEPT !.assign_to = @ + 1]
             /\ forge' = AssignTo(forge, to)
    /\ pc' = "return"
    /\ UNCHANGED <<opts, now, fn, exc, mr, external, loc, project, git, args, config>>

unassign_from_mr == UnassignCall

(* ---------------- update_from_target_branch_and_push ------------------ *)

\* a faulty variant: equal branch names are rejected for a fork too
Coincide_for_forks_too(m, source_repo_url) == m.source_branch = m.target_branch

\* the rejection made before the try block
Coincide(m, source_repo_url) ==
    source_repo_url = "None" /\ m.source_branch = m.target_branch

\* fuse: the Git operation the strategy starts with
FirstFuse(o) == IF o.merge_strategy = "merge" THEN "merge" ELSE "rebase"

\* rebase_then_merge: a failed rebase is followed by a merge
MergeAfterRebase(o) == o.merge_strategy = "rebase_then_merge"

\* the Git operations leave the source branch checked out
OnSource(g, m) ==
    [head |-> m.source_branch, local |-> g.local \cup {m.source_branch}]

UpdateEnter ==
    /\ fn = "update_from_target_branch_and_push" /\ pc = "enter"
    /\ IF Coincide(mr, loc.source_repo_url)
       THEN Finish(CannotMerge("source and target branch seem to coincide!"))
       ELSE pc' = FirstFuse(opts) /\ exc' = exc
    /\ UNCHANGED <<opts, now, fn, mr, forge, external, loc, calls, project, git, args, config>>

\* self._repo.rebase: the updated sha, or a GitError
UpdateRebase ==
    /\ fn = "update_from_target_branch_and_push" /\ pc = "rebase"
    /\ \/ \E sha \in Shas :
            /\ loc' = [loc EXCEPT !.updated_sha = sha, !.branch_updated = TRUE,
                                  !.fused_with = loc.source_repo_url]
            /\ git' = OnSource(git, mr)
            /\ pc' = "get_commit_hash"
       \/ \E g \in {git, OnSource(git, mr)} :
            /\ git' = g
            /\ IF MergeAfterRebase(opts)
               THEN /\ pc' = "merge"
                    /\ loc' = [loc EXCEPT !.fused_with = loc.source_repo_url]
               ELSE /\ pc' = "except"
                    /\ loc' = [loc EXCEPT !.git_error = "rebase",
                                          !.fused_with = loc.source_repo_url]
    /\ UNCHANGED <<opts, now, fn, exc, mr, forge, external, calls, project, args, config>>

\* self._repo.merge: the updated sha, or a GitError
UpdateMerge ==
    /\ fn = "update_from_target_branch_and_push" /\ pc = "merge"
    /\ \/ \E sha \in Shas :
            /\ loc' = [loc EXCEPT !.updated_sha = sha, !.branch_updated = TRUE,
                                  !.fused_with = loc.source_repo_url]
            /\ git' = OnSource(git, mr)
            /\ pc' = "get_commit_hash"
       \/ \E g \in {git, OnSource(git, mr)} :
            /\ git' = g
            /\ pc' = "except"
            /\ loc' = [loc EXCEPT !.git_error = "merge",
                                  !.fused_with = loc.source_repo_url]
    /\ UNCHANGED <<opts, now, fn, exc, mr, forge, external, calls, project, args, config>>

\* a faulty variant: the comparison of the two shas is left out
AlreadyInTarget_never(updated_sha, target_sha) == FALSE

\* if updated_sha == target_sha
AlreadyInTarget(updated_sha, target_sha) == updated_sha = target_sha

\* repo.get_commit_hash('origin/' + target_branch), then the comparison
UpdateTargetSha ==
    /\ fn = "update_from_target_branch_and_push" /\ pc = "get_commit_hash"
    /\ \/ \E sha \in Shas :
            /\ loc' = [loc EXCEPT
                         !.target_sha = sha,
                         !.pending =
                             IF AlreadyInTarget(loc.updated_sha, sha)
                             THEN CannotMerge("these changes already exist in branch")
                             ELSE NoExc]
            /\ pc' = IF AlreadyInTarget(loc.updated_sha, sha) THEN "finally"
                     ELSE "reviewed_by"
       \/ /\ loc' = [loc EXCEPT !.git_error = "get_commit_hash"]
          /\ pc' = "except"
    /\ UNCHANGED <<opts, now, fn, exc, mr, forge, external, calls, project, git, args, config>>

\* add_trailers: which trailers are written
AddReviewedBy(o) == o.add_reviewers

should_add_tested(o, proj) ==
    o.add_tested /\ proj.only_allow_merge_if_pipeline_succeeds

\* a faulty variant: the strategy is not looked at
AddTestedBy_any_strategy(o, proj) == should_add_tested(o, proj)

AddTestedBy(o, proj) ==
    should_add_tested(o, proj) /\ o.merge_strategy = "rebase"

\* a faulty variant: the Part-of trailer is never written
AddPartOf_never(o) == FALSE

AddPartOf(o) == o.add_part_of

\* where tag_with_trailer starts rewriting
StartCommit(name, m) ==
    IF name = "Tested-by" THEN <<m.source_branch, "^">>
    ELSE <<"origin/", m.target_branch>>

\* one trailer of add_trailers: skipped, or self._repo.tag_with_trailer,
\* which gives the new tip or raises a GitError
Trailer(at, name, enabled, after) ==
    /\ fn = "update_from_target_branch_and_push" /\ pc = at
    /\ IF ~enabled
       THEN pc' = after /\ loc' = loc
       ELSE \E sha \in Shas \cup {"GitError"} :
            IF sha = "GitError"
            THEN /\ pc' = "except"
                 /\ loc' = [loc EXCEPT !.git_error = "tag_with_trailer"]
            ELSE /\ pc' = after
                 /\ loc' = [loc EXCEPT
                              !.sha = sha,
                              !.trailers =
                                  Append(@, [trailer_name |-> name,
                                             start_commit |-> StartCommit(name, mr),
                                             sha |-> sha])]
    /\ UNCHANGED <<opts, now, fn, exc, mr, forge, external, calls, project, git, args, config>>

TrailerReviewedBy ==
    Trailer("reviewed_by", "Reviewed-by", AddReviewedBy(opts), "tested_by")

TrailerTestedBy ==
    Trailer("tested_by", "Tested-by", AddTestedBy(opts, project), "part_of")

TrailerPartOf ==
    Trailer("part_of", "Part-of", AddPartOf(opts), "rewritten")

\* a faulty variant: what add_trailers returned is dropped
RewrittenSha_of_fuse(sha, updated_sha) == updated_sha

\* self.add_trailers(merge_request) or updated_sha
RewrittenSha(sha, updated_sha) == IF sha # "None" THEN sha ELSE updated_sha

\* rewritten_sha and branch_rewritten, once add_trailers has returned
UpdateRewritten ==
    /\ fn = "update_from_target_branch_and_push" /\ pc = "rewritten"
    /\ LET rewritten_sha == RewrittenSha(loc.sha, loc.updated_sha) IN
        loc' = [loc EXCEPT !.rewritten_sha = rewritten_sha,
                           !.branch_rewritten = (rewritten_sha # loc.updated_sha)]
    /\ pc' = "push"
    /\ UNCHANGED <<opts, now, fn, exc, mr, forge, external, calls, project, git, args, config>>

\* the arguments of repo.push, with what became of the call
Push(m, l, ok) ==
    [branch |-> m.source_branch, source_repo_url |-> l.source_repo_url,
     force |-> TRUE, ok |-> ok]

\* repo.push(source_branch, source_repo_url=source_repo_url, force=True)
UpdatePush ==
    /\ fn = "update_from_target_branch_and_push" /\ pc = "push"
    /\ \E ok \in BOOLEAN :
        IF ok
        THEN /\ loc' = [loc EXCEPT !.changes_pushed = TRUE,
                                   !.pushed_to = loc.source_repo_url,
                                   !.pushes = Append(@, Push(mr, loc, ok))]
             /\ forge' = [forge EXCEPT !.head = loc.rewritten_sha]
             /\ calls' = [calls EXCEPT !.push = @ + 1]
             /\ pc' = "finally"
        ELSE /\ loc' = [loc EXCEPT !.git_error = "push",
                                   !.pushed_to = loc.source_repo_url,
                                   !.pushes = Append(@, Push(mr, loc, ok))]
             /\ forge' = forge
             /\ calls' = calls
             /\ pc' = "except"
    /\ UNCHANGED <<opts, now, fn, exc, mr, external, project, git, args, config>>

\* a faulty variant: the branch is looked up after any failure that follows
\* the fuse
LooksUpBranch_after_fuse(l) == l.branch_updated /\ ~l.changes_pushed

\* the handler asks the forge for the branch only when this holds
LooksUpBranch(l) ==
    l.branch_updated /\ l.branch_rewritten /\ ~l.changes_pushed /\ l.branch_rewritten

\* 'failed to push with strategy {}, check my logs!' for each strategy
FailedToPush(o) ==
    CASE o.merge_strategy = "merge" ->
             "failed to push with strategy merge, check my logs!"
      [] o.merge_strategy = "rebase" ->
             "failed to push with strategy rebase, check my logs!"
      [] OTHER ->
             "failed to push with strategy rebase_then_merge, check my logs!"

\* except git.GitError: what the handler raises
UpdateHandler(l, protected, o) ==
    IF ~l.branch_updated
    THEN CannotMerge("got conflicts while rebasing, your problem now...")
    ELSE IF ~l.branch_rewritten
    THEN IF l.rewritten_sha = "unbound"
         THEN [kind |-> "UnboundLocalError", reason |-> "rewritten_sha"]
         ELSE CannotMerge("expected commit id to change on merge")
    ELSE IF ~l.changes_pushed
    THEN IF l.branch_rewritten /\ protected = TRUE
         THEN CannotMerge("Sorry, I can't push rewritten changes to protected branches!")
         ELSE CannotMerge(FailedToPush(o))
    ELSE GitError(l.git_error)

UpdateExcept ==
    /\ fn = "update_from_target_branch_and_push" /\ pc = "except"
    /\ \E protected \in IF LooksUpBranch(loc) THEN BOOLEAN ELSE {"none"} :
        loc' = [loc EXCEPT !.protected = protected,
                           !.looked_up = LooksUpBranch(loc),
                           !.pending = UpdateHandler(loc, protected, opts)]
    /\ pc' = "finally"
    /\ UNCHANGED <<opts, now, fn, exc, mr, forge, external, calls, project, git, args, config>>

\* a faulty variant: the cleanup is skipped for the target branch
NeedsCleanup_of_target(m) == m.source_branch # m.target_branch

\* finally: the cleanup is skipped for the branch master
NeedsCleanup(m) == m.source_branch # "master"

\* a faulty variant: an exception of the try block survives a failed cleanup
FinallyOutcome_keeps_pending(pending, failed) ==
    IF failed = "" \/ pending # NoExc THEN pending ELSE GitError(failed)

\* a faulty variant: the finally clause ends every call normally
FinallyOutcome_swallows(pending, failed) == NoExc

\* what leaves the method after the finally clause: the outcome of the try
\* block, or the GitError of the cleanup step that failed
FinallyOutcome(pending, failed) ==
    IF failed = "" THEN pending ELSE GitError(failed)

\* a call of the cleanup, with what became of it
Cleanup(op, ok) == [op |-> op, ok |-> ok]

\* repo.checkout_branch('master'); a GitError here replaces the outcome
UpdateCheckoutMaster ==
    /\ fn = "update_from_target_branch_and_push" /\ pc = "finally"
    /\ IF NeedsCleanup(mr)
       THEN \E ok \in BOOLEAN :
            /\ loc' = [loc EXCEPT !.cleanup = Append(@, Cleanup("checkout_branch", ok))]
            /\ IF ok
               THEN /\ git' = [git EXCEPT !.head = "master"]
                    /\ pc' = "remove_branch" /\ exc' = exc
               ELSE /\ git' = git
                    /\ Finish(FinallyOutcome(loc.pending, "checkout_branch"))
       ELSE /\ git' = git
            /\ loc' = loc
            /\ Finish(FinallyOutcome(loc.pending, ""))
    /\ UNCHANGED <<opts, now, fn, mr, forge, external, calls, project, args, config>>

\* repo.remove_branch(source_branch), then the outcome of the try block
UpdateRemoveBranch ==
    /\ fn = "update_from_target_branch_and_push" /\ pc = "remove_branch"
    /\ \E ok \in BOOLEAN :
        /\ loc' = [loc EXCEPT !.cleanup = Append(@, Cleanup("remove_branch", ok))]
        /\ IF ok
           THEN /\ git' = [git EXCEPT !.local = @ \ {mr.source_branch}]
                /\ Finish(FinallyOutcome(loc.pending, ""))
           ELSE /\ git' = git
                /\ Finish(FinallyOutcome(loc.pending, "remove_branch"))
    /\ UNCHANGED <<opts, now, fn, mr, forge, external, calls, project, args, config>>

update_from_target_branch_and_push ==
    UpdateEnter \/ UpdateRebase \/ UpdateMerge \/ UpdateTargetSha
        \/ TrailerReviewedBy \/ TrailerTestedBy \/ TrailerPartOf
        \/ UpdateRewritten \/ UpdatePush \/ UpdateExcept
        \/ UpdateCheckoutMaster \/ UpdateRemoveBranch

(* ------------------------- fetch_source_project ----------------------- *)

\* get_source_project: the project itself unless the MR comes from a fork
IsFork(m, proj) == m.source_project_id # proj.id

\* a faulty variant: the fork's web address instead of ssh_url_to_repo
RemoteUrl_http(m, proj) == IF IsFork(m, proj) THEN "https://fork" ELSE "None"

\* the source project's ssh_url_to_repo, or None for the project itself
RemoteUrl(m, proj) == IF IsFork(m, proj) THEN "git@fork" ELSE "None"

\* Project.fetch_by_id and self._repo.fetch for a fork; nothing otherwise
FetchSourceProject ==
    /\ fn = "fetch_source_project" /\ pc = "enter"
    /\ IF IsFork(mr, project)
       THEN \E ok \in BOOLEAN :
            IF ok
            THEN /\ loc' = [loc EXCEPT !.source_project = "fetched_by_id",
                                       !.remote = "source",
                                       !.source_repo_url = RemoteUrl(mr, project),
                                       !.fetched = <<"source", RemoteUrl(mr, project)>>]
                 /\ Finish(NoExc)
            ELSE /\ loc' = [loc EXCEPT !.source_project = "fetched_by_id"]
                 /\ Finish(GitError("fetch"))
       ELSE /\ loc' = [loc EXCEPT !.source_project = "self._project",
                                  !.remote = "origin",
                                  !.source_repo_url = RemoteUrl(mr, project)]
            /\ Finish(NoExc)
    /\ UNCHANGED <<opts, now, fn, mr, forge, external, calls, project, git, args, config>>

fetch_source_project == FetchSourceProject

(* ----------------------- app: _parse_config, main --------------------- *)

MargeBotCliArgError(reason) == [kind |-> "MargeBotCliArgError", reason |-> reason]

\* what the argument parser itself ends with on arguments it refuses
SystemExit(reason) == [kind |-> "SystemExit", reason |-> reason]

\* the mutually exclusive group of --use-merge-strategy and --merge-strategy,
\* and the choices of --merge-strategy
Refused(a) ==
    IF a.use_merge_strategy /\ a.merge_strategy # "absent"
    THEN SystemExit("argument --merge-strategy: not allowed with argument --use-merge-strategy")
    ELSE IF a.merge_strategy \notin MergeStrategy \cup {"absent"}
    THEN SystemExit("argument --merge-strategy: invalid choice")
    ELSE NoExc

\* the Namespace of accepted arguments: --merge-strategy defaults to rebase
Namespace(a) ==
    [use_merge_strategy |-> a.use_merge_strategy,
     merge_strategy |-> IF a.merge_strategy = "absent" THEN "rebase"
                        ELSE a.merge_strategy,
     add_tested |-> a.add_tested, batch |-> a.batch,
     add_part_of |-> a.add_part_of]

\* config = parser.parse_args(args)
ParseArgs ==
    /\ fn = "_parse_config" /\ pc = "parse_args"
    /\ IF Refused(args) # NoExc
       THEN Finish(Refused(args)) /\ config' = config
       ELSE pc' = "use_merge_strategy" /\ exc' = exc /\ config' = Namespace(args)
    /\ UNCHANGED <<opts, now, fn, mr, forge, external, loc, calls, project, git, args>>

\* if config.use_merge_strategy: config.merge_strategy = MergeStrategy.merge
UseMergeStrategy ==
    /\ fn = "_parse_config" /\ pc = "use_merge_strategy"
    /\ config' = IF config.use_merge_strategy
                 THEN [config EXCEPT !.merge_strategy = "merge"]
                 ELSE config
    /\ pc' = "exclusive"
    /\ UNCHANGED <<opts, now, fn, exc, mr, forge, external, loc, calls, project, git, args>>

\* a faulty variant: only --batch is looked at
MergeExclusive_batch_only(c) ==
    IF c.merge_strategy = "merge" /\ c.batch
    THEN MargeBotCliArgError("--merge-strategy=merge and --batch are currently mutually exclusive")
    ELSE NoExc

\* what the merge strategy excludes: batch first, else add_tested
MergeExclusive(c) ==
    IF c.merge_strategy = "merge"
    THEN IF c.batch
         THEN MargeBotCliArgError("--merge-strategy=merge and --batch are currently mutually exclusive")
         ELSE IF c.add_tested
         THEN MargeBotCliArgError("--merge-strategy=merge and --add-tested are currently mutually exclusive")
         ELSE NoExc
    ELSE NoExc

CheckMergeExclusive ==
    /\ fn = "_parse_config" /\ pc = "exclusive"
    /\ IF MergeExclusive(config) # NoExc
       THEN Finish(MergeExclusive(config))
       ELSE pc' = "del" /\ exc' = exc
    /\ UNCHANGED <<opts, now, fn, mr, forge, external, loc, calls, project, git, args, config>>

\* del config.use_merge_strategy
DelUseMergeStrategy ==
    /\ fn = "_parse_config" /\ pc = "del"
    /\ config' = [k \in DOMAIN config \ {"use_merge_strategy"} |-> config[k]]
    /\ pc' = "cli_args"
    /\ UNCHANGED <<opts, now, fn, exc, mr, forge, external, loc, calls, project, git, args>>

\* the secrets must not be given on the command line
BadArg(cli_args) ==
    IF "--auth-token" \in cli_args
    THEN MargeBotCliArgError("--auth-token can only be set via ENV var or config file.")
    ELSE IF "--ssh-key" \in cli_args
    THEN MargeBotCliArgError("--ssh-key can only be set via ENV var or config file.")
    ELSE NoExc

CheckCliArgs ==
    /\ fn = "_parse_config" /\ pc = "cli_args"
    /\ Finish(BadArg(args.cli_args))
    /\ UNCHANGED <<opts, now, fn, mr, forge, external, loc, calls, project, git, args, config>>

_parse_config ==
    \/ ParseArgs
    \/ UseMergeStrategy
    \/ CheckMergeExclusive
    \/ DelUseMergeStrategy
    \/ CheckCliArgs

\* merge_opts=MergeJobOptions.default(...) of the options _parse_config
\* returned; BotConfig takes batch=options.batch as it is
MergeOpts(options) ==
    [DefaultOptions EXCEPT !.add_tested = options.add_tested,
                           !.add_part_of = options.add_part_of,
                           !.merge_strategy = options.merge_strategy]

main ==
    /\ fn = "_parse_config" /\ pc = "return"
    /\ fn' = "main" /\ pc' = "bot_config"
    /\ opts' = MergeOpts(config)
    /\ UNCHANGED <<now, exc, mr, forge, external, loc, calls, project, git, args, config>>

(* ------------------------------- execute ------------------------------ *)

\* the order of the job's steps: Validate, Prepare, Update/Rewrite/Push,
\* AwaitCI, Reapprove, AcceptMerge
NextMethod(method) ==
    CASE method = "execute" -> "ensure_mergeable_mr"
      [] method = "ensure_mergeable_mr" -> "fetch_source_project"
      [] method = "fetch_source_project" -> "update_from_target_branch_and_push"
      [] method = "update_from_target_branch_and_push" -> "wait_for_ci_to_pass"
      [] method = "wait_for_ci_to_pass" -> "maybe_reapprove"
      [] method = "maybe_reapprove" -> "accept"
      [] OTHER -> "execute"

EntryOf(method) ==
    CASE method = "ensure_mergeable_mr" -> "refetch_info"
      [] method = "execute" -> "done"
      [] OTHER -> "enter"

\* what the job keeps from one step to the next: the approvals it fetched,
\* the instant of the embargo check, what fetch_source_project returned
\* (project, URL, remote) and the rewritten sha, which is the commit whose
\* CI is awaited
Carried(l) ==
    [NoLoc EXCEPT !.approvals = l.approvals,
                  !.embargo_at = l.embargo_at,
                  !.source_repo_url = l.source_repo_url,
                  !.fetched = l.fetched,
                  !.source_project = l.source_project,
                  !.remote = l.remote,
                  !.commit_sha = IF l.rewritten_sha = "unbound" THEN l.commit_sha
                                 ELSE l.rewritten_sha]

\* the job starts with its first step
ExecuteStart ==
    /\ fn = "execute" /\ pc = "start"
    /\ fn' = NextMethod(fn)
    /\ pc' = EntryOf(NextMethod(fn))
    /\ UNCHANGED <<opts, now, exc, mr, forge, external, loc, calls, project, git, args, config>>

\* a step returned: the job goes on with the next one
ExecuteNext ==
    /\ fn \notin {"execute", "unassign_from_mr"} /\ pc = "return"
    /\ fn' = NextMethod(fn)
    /\ pc' = EntryOf(NextMethod(fn))
    /\ loc' = Carried(loc)
    /\ UNCHANGED <<opts, now, exc, mr, forge, external, calls, project, git, args, config>>

\* what the job does with an exception of a step
Handling(e) ==
    IF IsSkipMerge(e) THEN "skip"
    ELSE IF IsCannotMerge(e) THEN "unassign"
    ELSE "fatal"

\* SkipMerge: move on; CannotMerge: unassign; anything else is fatal. The
\* locals of the step that raised are gone
ExecuteHandle ==
    /\ fn \notin {"execute", "unassign_from_mr"} /\ pc = "raise"
    /\ LET h == Handling(exc) IN
        /\ fn' = IF h = "unassign" THEN "unassign_from_mr" ELSE "execute"
        /\ pc' = CASE h = "unassign" -> "enter"
                   [] h = "skip" -> "done"
                   [] OTHER -> "fatal"
    /\ loc' = NoLoc
    /\ UNCHANGED <<opts, now, exc, mr, forge, external, calls, project, git, args, config>>

\* the bot has unassigned itself: the job is over
ExecuteEnd ==
    /\ fn = "unassign_from_mr" /\ pc = "return"
    /\ fn' = "execute" /\ pc' = "done"
    /\ UNCHANGED <<opts, now, exc, mr, forge, external, loc, calls, project, git, args, config>>

execute == ExecuteStart \/ ExecuteNext \/ ExecuteHandle \/ ExecuteEnd

(* --------------------------- specifications --------------------------- *)

TargetProject == [id |-> "project", only_allow_merge_if_pipeline_succeeds |-> TRUE]

\* the forge while a job runs on an MR listed for the bot
ListedForge ==
    [assignee_ids |-> {BotId}, sufficient |-> TRUE, head |-> "sha_a",
     started |-> {}]

\* the options ensure_mergeable_mr reads: the trailer switches and the embargo
ValidateOptions ==
    {[DefaultOptions EXCEPT !.add_tested = t, !.add_part_of = p,
                            !.add_reviewers = r, !.embargo = e] :
        t \in BOOLEAN, p \in BOOLEAN, r \in BOOLEAN, e \in Embargoes}

\* a job from its start: execute calls ensure_mergeable_mr; meanwhile users
\* may have edited the MR the scheduler listed
InitValidate ==
    /\ opts \in ValidateOptions
    /\ now = 0
    /\ fn = "execute" /\ pc = "start"
    /\ exc = NoExc
    /\ mr \in {[ListedMR(a, "sha_a") EXCEPT !.source_project_id = p] :
                 a \in Users, p \in {"project", "fork"}}
    /\ forge = ListedForge
    /\ external = 0
    /\ loc = NoLoc
    /\ calls = NoCalls
    /\ project = TargetProject
    /\ git = CleanGit
    /\ args = NoArgs /\ config = NoConfig

\* the job through Validate and Prepare, and what execute does on failure
NextValidate ==
    \/ execute
    \/ ensure_mergeable_mr
    \/ fetch_source_project
    \/ unassign_from_mr
    \/ ExternalAssign
    \/ ExternalApprovalChange

SpecValidate == InitValidate /\ [][NextValidate]_vars

\* the options update_from_target_branch_and_push reads
UpdateOptions ==
    {[DefaultOptions EXCEPT !.add_tested = t, !.add_part_of = p,
                            !.add_reviewers = r, !.merge_strategy = m] :
        t \in BOOLEAN, p \in BOOLEAN, r \in BOOLEAN, m \in MergeStrategy}

\* an MR between any two branches
BranchMRs ==
    {[ListedMR("alice", "sha_a") EXCEPT !.source_branch = src,
                                        !.target_branch = dst] :
        src \in Branches, dst \in Branches}

\* a working copy an earlier clone or job left: master checked out, the
\* source branch perhaps present
LeftGits(m) == {[CleanGit EXCEPT !.local = @ \cup b] : b \in {{}, {m.source_branch}}}

\* a call of update_from_target_branch_and_push
InitUpdate ==
    /\ opts \in UpdateOptions
    /\ now = 0
    /\ fn = "update_from_target_branch_and_push" /\ pc = "enter"
    /\ exc = NoExc
    /\ mr \in BranchMRs
    /\ forge = ListedForge
    /\ external = 0
    /\ loc \in {[NoLoc EXCEPT !.source_repo_url = u] : u \in {"None", "git@fork"}}
    /\ calls = NoCalls
    /\ project \in Projects
    /\ git \in LeftGits(mr)
    /\ args = NoArgs /\ config = NoConfig

NextUpdate == update_from_target_branch_and_push

SpecUpdate == InitUpdate /\ [][NextUpdate]_vars

\* an MR between any two branches, of the project itself or of a fork
PreparedMRs ==
    {[m EXCEPT !.source_project_id = p] :
        m \in BranchMRs, p \in {"project", "fork"}}

\* a validated job at its Prepare step
InitPrepare ==
    /\ opts \in UpdateOptions
    /\ now = 0
    /\ fn = "fetch_source_project" /\ pc = "enter"
    /\ exc = NoExc
    /\ mr \in PreparedMRs
    /\ forge = ListedForge
    /\ external = 0
    /\ loc = NoLoc
    /\ calls = NoCalls
    /\ project \in Projects
    /\ git \in LeftGits(mr)
    /\ args = NoArgs /\ config = NoConfig

\* Prepare, then Update, Rewrite and Push with the URL Prepare returned
NextPrepare ==
    \/ fetch_source_project
    \/ ExecuteNext
    \/ update_from_target_branch_and_push

SpecPrepare == InitPrepare /\ [][NextPrepare]_vars

\* the settings marge may be started with
Settings ==
    [use_merge_strategy : BOOLEAN, merge_strategy : StrategyArgs,
     add_tested : BOOLEAN, batch : BOOLEAN, add_part_of : BOOLEAN,
     cli_args : SUBSET {"--auth-token", "--ssh-key"}]

\* marge starts: main calls _parse_config
InitConfig ==
    /\ opts = DefaultOptions
    /\ now = 0
    /\ fn = "_parse_config" /\ pc = "parse_args"
    /\ exc = NoExc
    /\ mr = ListedMR("alice", "sha_a")
    /\ forge = ListedForge
    /\ external = 0
    /\ loc = NoLoc
    /\ calls = NoCalls
    /\ project = TargetProject
    /\ git = CleanGit
    /\ args \in Settings /\ config = NoConfig

NextConfig == _parse_config \/ main

SpecConfig == InitConfig /\ [][NextConfig]_vars

\* the options wait_for_ci_to_pass reads; timeouts are multiples of 5
\* seconds, and default() turns a ci_timeout of 0 into the 15 minutes
CiOptions ==
    {[DefaultOptions EXCEPT !.ci_timeout = 5 * k, !.ci_timeout_skip = s,
                            !.require_ci_run_by_me = r] :
        k \in 1..MaxCiTimeout, s \in BOOLEAN, r \in BOOLEAN}

\* a call of wait_for_ci_to_pass, with or without a commit_sha; the source
\* branch may have moved since the MR was fetched
InitCI ==
    /\ opts \in CiOptions
    /\ now = 0
    /\ fn = "wait_for_ci_to_pass" /\ pc = "enter"
    /\ exc = NoExc
    /\ mr = ListedMR("alice", "sha_a")
    /\ forge \in {[ListedForge EXCEPT !.head = h] : h \in Shas}
    /\ external = 0
    /\ loc \in {[NoLoc EXCEPT !.commit_sha = c] : c \in Shas \cup {"None"}}
    /\ calls = NoCalls
    /\ project = TargetProject
    /\ git = CleanGit
    /\ args = NoArgs /\ config = NoConfig

NextCI == wait_for_ci_to_pass \/ ExternalPush

SpecCI == InitCI /\ [][NextCI]_vars

\* the method takes its steps: it is never suspended for ever
FairSpecCI == SpecCI /\ WF_vars(wait_for_ci_to_pass)

\* the options maybe_reapprove reads
ReapproveOptions ==
    {[DefaultOptions EXCEPT !.reapprove = r, !.approval_timeout = 5 * k] :
        r \in BOOLEAN, k \in 0..MaxApprovalTimeout}

\* a call of maybe_reapprove after a push: the approvals reset or not
InitReapprove ==
    /\ opts \in ReapproveOptions
    /\ now = 0
    /\ fn = "maybe_reapprove" /\ pc = "enter"
    /\ exc = NoExc
    /\ mr \in {ListedMR(a, "sha_a") : a \in Users}
    /\ forge \in {[ListedForge EXCEPT !.sufficient = s] : s \in BOOLEAN}
    /\ external = 0
    /\ loc = NoLoc
    /\ calls = NoCalls
    /\ project = TargetProject
    /\ git = CleanGit
    /\ args = NoArgs /\ config = NoConfig

NextReapprove == maybe_reapprove \/ ExternalApprovalChange

SpecReapprove == InitReapprove /\ [][NextReapprove]_vars

FairSpecReapprove == SpecReapprove /\ WF_vars(maybe_reapprove)

\* a job at the entry of any of its steps, each step on its own, and what
\* execute does with the exception a step raises
Init == InitValidate \/ InitUpdate \/ InitCI \/ InitReapprove

Next ==
    \/ ExecuteStart
    \/ ExecuteHandle
    \/ ExecuteEnd
    \/ ensure_mergeable_mr
    \/ update_from_target_branch_and_push
    \/ wait_for_ci_to_pass
    \/ maybe_reapprove
    \/ unassign_from_mr
    \/ ExternalAssign
    \/ ExternalApprovalChange
    \/ ExternalPush

Spec == Init /\ [][Next]_vars

(* ------------------------------ properties ---------------------------- *)

Ended(method) == fn = method /\ pc \in {"return", "raise"}

\* what validation has established of the snapshot it re-fetched, of the
\* approvals it fetched and of the instant it asked the embargo about
Validated ==
    /\ ~mr.work_in_progress
    /\ ~(mr.squash /\ (opts.add_tested \/ opts.add_part_of \/ opts.add_reviewers))
    /\ loc.approvals = {TRUE}
    /\ mr.state \in {"opened", "reopened", "locked"}
    /\ loc.embargo_at >= 0
    /\ ~covers(opts.embargo, loc.embargo_at)
    /\ BotId \in mr.assignee_ids

\* C1: whenever ensure_mergeable_mr returns without raising, the snapshot is
\* not work-in-progress, not squash with commit tagging requested, has
\* sufficient approvals and an open state, the embargo does not cover the
\* instant of the check and the bot is an assignee; the steps that follow
\* validation are reached only so.
C1_ValidationGate ==
    /\ (fn = "ensure_mergeable_mr" /\ pc = "return") => Validated
    /\ fn \in {"fetch_source_project", "update_from_target_branch_and_push"}
           => Validated

\* validation passes under an embargo that begins later, with trailers
\* requested, after a user changed the forge's side
C1_Witness ==
    /\ fn = "ensure_mergeable_mr" /\ pc = "return"
    /\ opts.embargo # {}
    /\ opts.add_reviewers
    /\ external > 0

JobDone == fn = "execute" /\ pc = "done"

\* C2: after a job ends in CannotMerge that is not SkipMerge, the bot is not
\* among the assignees on the forge: the MR went to its author by one
\* assign_to when the author is not the bot, and the bot was dropped by one
\* unassign otherwise; one call of the two was issued, not both.
C2_UnassignedAfterCannotMerge ==
    (JobDone /\ exc.kind = "CannotMerge") =>
        /\ BotId \notin forge.assignee_ids
        /\ calls.assign_to + calls.unassign = 1
        /\ IF mr.author_id # BotId
           THEN calls.assign_to = 1 /\ forge.assignee_ids = {mr.author_id}
           ELSE calls.unassign = 1

\* the bot's own MR failed its CI: the bot dropped itself
C2_Witness ==
    /\ JobDone
    /\ exc.kind = "CannotMerge"
    /\ mr.author_id = BotId
    /\ calls.unassign = 1

\* the four causes of a SkipMerge
SkipCause ==
    \/ exc.reason \in {"The merge request is already merged!",
                       "The merge request is already closed!",
                       "Merge embargo!", "It is not assigned to me anymore!"}
    \/ exc.reason = "CI is taking too long." /\ opts.ci_timeout_skip

\* C3: when a step ends in SkipMerge (MR merged or closed, embargo, bot no
\* longer assigned, CI timeout with ci_timeout_skip), unassign_from_mr is not
\* entered and no assign_to or unassign call is issued.
C3_SkipLeavesAssignment ==
    (SkipCause \/ IsSkipMerge(exc)) =>
        /\ fn # "unassign_from_mr"
        /\ calls.assign_to = 0
        /\ calls.unassign = 0

\* a job ended by the CI timeout with ci_timeout_skip set
C3_Witness ==
    /\ JobDone
    /\ exc = SkipMerge("CI is taking too long.")
    /\ now > 0

\* the working copy after the cleanup: master checked out, the local source
\* branch gone; or the source branch is master
CleanedUp ==
    \/ mr.source_branch = "master"
    \/ mr.source_branch \notin git.local /\ git.head = "master"

CoincideRejection == CannotMerge("source and target branch seem to coincide!")

\* C4 as stated: after any outcome of update_from_target_branch_and_push the
\* local source branch is deleted with master checked out, or it is master.
C4_CleanupAfterAnyOutcome ==
    Ended("update_from_target_branch_and_push") => CleanedUp

\* C4: after a normal return and after any exception but the rejection of
\* coinciding branches (raised before the try block) and a GitError (raised
\* by the cleanup itself, the only GitError that leaves the method), the
\* local source branch is deleted with master checked out, or it is master.
C4_CleanupAfterTry ==
    Ended("update_from_target_branch_and_push") =>
        /\ exc.kind = "GitError" => exc.reason \in {"checkout_branch", "remove_branch"}
        /\ (exc.kind # "GitError" /\ exc # CoincideRejection) => CleanedUp

\* a failed push of a feature branch: CannotMerge, and the branch is gone
C4_Witness ==
    /\ Ended("update_from_target_branch_and_push")
    /\ exc.kind = "CannotMerge"
    /\ loc.branch_updated
    /\ loc.git_error = "push"
    /\ mr.source_branch = "feature"
    /\ git = CleanGit

\* a pipeline of the listing on the awaited sha with one of the statuses
ListedOnAwaited(statuses) ==
    \E i \in DOMAIN loc.pipelines :
        /\ loc.pipelines[i].sha = loc.commit_sha
        /\ loc.pipelines[i].status \in statuses

\* C5: wait_for_ci_to_pass returns normally only if the listing of some poll
\* held a pipeline on the awaited sha with status success or skipped, and it
\* fails for the CI's sake only on a failed or canceled pipeline on that sha:
\* pipelines on other shas decide nothing.
C5_OnlyAwaitedSha ==
    /\ (fn = "wait_for_ci_to_pass" /\ pc = "return")
           => ListedOnAwaited({"success", "skipped"})
    /\ (fn = "wait_for_ci_to_pass" /\ pc = "raise"
          /\ exc.reason \in {"CI failed!", "Someone canceled the CI."})
           => ListedOnAwaited({"failed", "canceled"})

\* the wait succeeds although the newest pipeline, on another sha, failed
C5_Witness ==
    /\ fn = "wait_for_ci_to_pass" /\ pc = "return"
    /\ Len(loc.pipelines) = 2
    /\ loc.pipelines[1].sha # loc.commit_sha
    /\ loc.pipelines[1].status = "failed"

\* C6 as stated: with require_ci_run_by_me set, one call of
\* wait_for_ci_to_pass issues one Pipeline.start and no more, however many
\* polls find no pipeline on the awaited sha.
C6_OneStartPerWait ==
    fn = "wait_for_ci_to_pass" => calls.start <= 1

TerminalStatuses == {"success", "skipped", "failed", "canceled"}

TooLong == "CI is taking too long."

\* the wait has ended
CiEnded == Ended("wait_for_ci_to_pass")

\* how the wait may end, and when
CiOutcome ==
    CiEnded =>
        /\ exc.reason = TooLong =>
               /\ exc.kind = IF opts.ci_timeout_skip THEN "SkipMerge"
                             ELSE "CannotMerge"
               /\ now - loc.time_0 >= opts.ci_timeout
        /\ exc.reason # TooLong =>
               /\ loc.ci_status \in TerminalStatuses
               /\ now - loc.time_0 < opts.ci_timeout

\* C7: wait_for_ci_to_pass terminates; when no poll inside the ci_timeout
\* deadline sees success, skipped, failed or canceled on the awaited sha it
\* ends with SkipMerge('CI is taking too long.') if ci_timeout_skip is set
\* and with a non-skip CannotMerge of that reason otherwise, at or after the
\* deadline; any other end comes from a poll inside the deadline that saw
\* one of those four statuses, so pending, running and absent end nothing.
C7_CiWaitTerminates ==
    /\ <>CiEnded
    /\ []CiOutcome

\* two polls saw a running pipeline, then the deadline passed: SkipMerge
C7_Witness ==
    /\ CiEnded
    /\ exc = SkipMerge(TooLong)
    /\ loc.ci_status = "running"
    /\ now = 2 * CiWaitingTime

\* a poll that saw failed or canceled has ended the wait, with a failure
\* that is not a SkipMerge
CiFailureEnds ==
    fn = "wait_for_ci_to_pass" =>
        /\ loc.ci_status = "failed" =>
               pc = "raise" /\ exc = CannotMerge("CI failed!")
        /\ loc.ci_status = "canceled" =>
               pc = "raise" /\ exc = CannotMerge("Someone canceled the CI.")

\* C8: the first poll that sees failed on the pipeline of the awaited sha
\* ends the wait with CannotMerge('CI failed!'), the first that sees
\* canceled with CannotMerge('Someone canceled the CI.'), whatever
\* ci_timeout_skip says; once the wait has ended the method neither polls
\* nor starts a pipeline again.
C8_FailedOrCanceledEndsWait ==
    /\ []CiFailureEnds
    /\ [][CiEnded => (calls' = calls /\ loc' = loc /\ now' = now)]_vars

\* a later poll saw the pipeline failed, with ci_timeout_skip set
C8_Witness ==
    /\ CiEnded
    /\ exc = CannotMerge("CI failed!")
    /\ opts.ci_timeout_skip
    /\ now > 0

\* approvals.reapprove() is being called
Reapproving == calls'.reapprove > calls.reapprove

\* C9 as stated: reapprove is called only with the option on, at most once
\* per call of maybe_reapprove, and only while the approvals are not
\* sufficient on the forge at the moment of the call.
C9_ReapproveOnlyWhenReset ==
    [][Reapproving =>
          /\ opts.reapprove
          /\ calls.reapprove = 0
          /\ ~forge.sufficient]_vars

\* C9: reapprove is called only with the option on, at most once per call
\* of maybe_reapprove, and only when the bot's last fetch of the approvals,
\* the one after the loop, reported them not sufficient; they are
\* sufficient on the forge at the moment of the call only if somebody
\* changed them after that fetch.
C9_ReapproveAfterResetSeen ==
    [][Reapproving =>
          /\ opts.reapprove
          /\ calls.reapprove = 0
          /\ loc.approvals = {FALSE}
          /\ forge.sufficient => external > 0]_vars

\* the approvals were reset while the bot slept; it reapproved
C9_Witness ==
    /\ fn = "maybe_reapprove" /\ pc = "return"
    /\ calls.reapprove = 1
    /\ external = 1
    /\ now > 0

\* the poll has ended
ReapproveEnded == Ended("maybe_reapprove")

\* C10: the approval poll sleeps, 5 seconds a round, only when the fetch of
\* that round reported sufficient approvals and the approval_timeout had not
\* elapsed; a fetch that reports them not sufficient ends the loop with no
\* further sleep; with approval_timeout = 0 it never sleeps; the poll
\* terminates.
C10_ApprovalPoll ==
    /\ [][now' # now =>
            /\ now' = now + 5
            /\ loc.approvals = {TRUE}
            /\ now - loc.time_0 < opts.approval_timeout]_vars
    /\ [](loc.approvals = {FALSE} => pc \in {"if", "reapprove", "return", "raise"})
    /\ [][loc.approvals = {FALSE} => now' = now]_vars
    /\ [](opts.approval_timeout = 0 => now = 0)
    /\ <>ReapproveEnded

\* the approvals were reset during the first sleep: the loop is left at
\* 5 seconds of a 15 second timeout
C10_Witness ==
    /\ fn = "maybe_reapprove" /\ pc = "if"
    /\ loc.approvals = {FALSE}
    /\ now = 5
    /\ opts.approval_timeout = 15

UpdateEnded == Ended("update_from_target_branch_and_push")

\* the cleanup in the finally clause failed: its GitError is the outcome
CleanupFailed ==
    exc.kind = "GitError" /\ exc.reason \in {"checkout_branch", "remove_branch"}

ProtectedBranch ==
    "Sorry, I can't push rewritten changes to protected branches!"

\* C11 as stated: when the force-push fails, the outcome is the CannotMerge
\* about protected branches or the CannotMerge 'failed to push with strategy
\* <s>, check my logs!', whether or not a trailer rewrite changed the tip.
C11_PushFailureOutcome ==
    (UpdateEnded /\ loc.git_error = "push" /\ ~CleanupFailed) =>
        /\ exc.kind = "CannotMerge"
        /\ exc.reason \in {ProtectedBranch, FailedToPush(opts)}

\* C12 as stated: a GitError of a Git step of the try block (fuse, reading
\* the target sha, a trailer rewrite, the push) leaves the method as a
\* CannotMerge, the failure of the cleanup excepted.
C12_GitErrorBecomesCannotMerge ==
    (UpdateEnded /\ loc.git_error # "" /\ ~CleanupFailed) =>
        exc.kind = "CannotMerge"

\* C13 as stated: with rebase_then_merge, when the rebase and then the merge
\* raise a GitError, the GitError that reaches the handler of
\* update_from_target_branch_and_push is the rebase's.
C13_RebaseErrorSurfaced ==
    (fn = "update_from_target_branch_and_push"
       /\ opts.merge_strategy = "rebase_then_merge"
       /\ ~loc.branch_updated
       /\ loc.git_error # "") =>
        loc.git_error = "rebase"

\* the push has been attempted
PushReached ==
    fn = "update_from_target_branch_and_push" /\ loc.pushed_to # "unbound"

\* C14 as stated: if add_tested, add_part_of or add_reviewers is set, a run
\* that reaches the push has made at least one trailer rewrite, for every
\* merge strategy and every only_allow_merge_if_pipeline_succeeds.
C14_TaggingRequestedThenRewritten ==
    (PushReached /\ (opts.add_tested \/ opts.add_part_of \/ opts.add_reviewers))
        => Len(loc.trailers) >= 1

\* the options under which add_trailers calls tag_with_trailer
WritesATrailer ==
    \/ opts.add_reviewers
    \/ opts.add_part_of
    \/ /\ opts.add_tested
       /\ project.only_allow_merge_if_pipeline_succeeds
       /\ opts.merge_strategy = "rebase"

\* C14: a run that reaches the push has made at least one trailer rewrite
\* if add_reviewers or add_part_of is set, or add_tested is set with
\* strategy rebase on a project that merges only on a green pipeline, and
\* none otherwise; every trailer rewrite comes after the fuse and before
\* the push.
C14_TrailerBeforePush ==
    /\ [](PushReached => (WritesATrailer <=> Len(loc.trailers) >= 1))
    /\ [][loc'.trailers # loc.trailers =>
            loc.branch_updated /\ loc.pushed_to = "unbound"]_vars

\* add_tested alone, strategy rebase, a project that requires a green
\* pipeline: the Tested-by rewrite was made and the branch pushed
C14_Witness ==
    /\ PushReached
    /\ loc.changes_pushed
    /\ opts.add_tested /\ ~opts.add_part_of /\ ~opts.add_reviewers
    /\ Len(loc.trailers) = 1

AlreadyExist == CannotMerge("these changes already exist in branch")

\* the fuse left the source tip equal to the tip of origin/<target>
SameTip ==
    /\ fn = "update_from_target_branch_and_push"
    /\ loc.target_sha # "unbound"
    /\ loc.updated_sha = loc.target_sha

\* C15: if updated_sha == target_sha, no trailer rewrite and no push is made,
\* the method goes straight to the cleanup of the finally clause and ends
\* with CannotMerge('these changes already exist in branch ...') and the
\* working copy cleaned up; only a GitError of that cleanup takes the
\* place of the CannotMerge.
C15_AlreadyInTargetBranch ==
    SameTip =>
        /\ loc.trailers = <<>>
        /\ loc.pushed_to = "unbound" /\ calls.push = 0
        /\ loc.pending = AlreadyExist
        /\ pc \in {"finally", "remove_branch", "raise"}
        /\ pc = "raise" => \/ exc = AlreadyExist /\ CleanedUp
                           \/ CleanupFailed

\* a rebase of a feature branch that a Part-of trailer was asked for gave
\* the tip of the target: CannotMerge, the branch is gone
C15_Witness ==
    /\ SameTip
    /\ pc = "raise" /\ exc = AlreadyExist
    /\ opts.add_part_of
    /\ opts.merge_strategy = "rebase"
    /\ mr.source_branch = "feature"
    /\ git = CleanGit

\* C16: past its first test, update_from_target_branch_and_push has raised
\* CannotMerge('source and target branch seem to coincide!') exactly when
\* no source repo URL was given and source_branch equals target_branch; it
\* did so before any fuse, trailer rewrite or push, the working copy as it
\* was; with the URL of a fork, equal branch names are not rejected.
C16_CoincideRejection ==
    (fn = "update_from_target_branch_and_push" /\ pc # "enter") =>
        /\ exc = CoincideRejection <=>
               /\ loc.source_repo_url = "None"
               /\ mr.source_branch = mr.target_branch
        /\ exc = CoincideRejection =>
               /\ pc = "raise"
               /\ loc.fused_with = "unbound" /\ ~loc.branch_updated
               /\ loc.git_error = ""
               /\ loc.trailers = <<>>
               /\ loc.pushed_to = "unbound" /\ calls.push = 0
               /\ git.head = "master"

\* an MR from feature to feature of the project itself is rejected
C16_Witness ==
    /\ fn = "update_from_target_branch_and_push" /\ pc = "raise"
    /\ exc = CoincideRejection
    /\ mr.source_branch = "feature"
    /\ mr.target_branch = "feature"

\* the outcome of the first rule that matches what validation saw: the
\* snapshot, the approvals it fetched, the instant it asked the embargo about
FirstMatchingRule ==
    CASE mr.work_in_progress ->
           CannotMerge("Sorry, I can't merge requests marked as Work-In-Progress!")
      [] ~mr.work_in_progress
           /\ mr.squash
           /\ (opts.add_tested \/ opts.add_part_of \/ opts.add_reviewers) ->
           CannotMerge("Sorry, merging requests marked as auto-squash would ruin my commit tagging!")
      [] OTHER ->
           IF loc.approvals = {FALSE}
           THEN CannotMerge("Insufficient approvals")
           ELSE IF mr.state = "merged"
           THEN SkipMerge("The merge request is already merged!")
           ELSE IF mr.state = "closed"
           THEN SkipMerge("The merge request is already closed!")
           ELSE IF mr.state \notin {"opened", "reopened", "locked"}
           THEN CannotMerge("The merge request is in an unknown state")
           ELSE IF covers(opts.embargo, loc.embargo_at)
           THEN SkipMerge("Merge embargo!")
           ELSE IF BotId \notin mr.assignee_ids
           THEN SkipMerge("It is not assigned to me anymore!")
           ELSE NoExc

\* C17: the outcome of ensure_mergeable_mr is that of the first matching
\* rule in the order work-in-progress, squash with tagging requested,
\* insufficient approvals, state merged or closed (SkipMerge 'already
\* <state>'), unknown state, embargo (SkipMerge), bot not assigned
\* (SkipMerge); it returns when no rule matches.
C17_ValidationPrecedence ==
    Ended("ensure_mergeable_mr") => exc = FirstMatchingRule

\* a merged MR that is under embargo and no longer assigned to the bot is
\* skipped as already merged
C17_Witness ==
    /\ Ended("ensure_mergeable_mr")
    /\ exc = SkipMerge("The merge request is already merged!")
    /\ covers(opts.embargo, now)
    /\ BotId \notin mr.assignee_ids

\* the names of the trailers written so far, in the order of writing
TrailerNames == [i \in DOMAIN loc.trailers |-> loc.trailers[i].trailer_name]

\* the trailers the options enable, in the order Reviewed-by, Tested-by,
\* Part-of
EnabledTrailers ==
    (IF opts.add_reviewers THEN <<"Reviewed-by">> ELSE <<>>)
    \o (IF opts.add_tested /\ project.only_allow_merge_if_pipeline_succeeds
            /\ opts.merge_strategy = "rebase"
        THEN <<"Tested-by">> ELSE <<>>)
    \o (IF opts.add_part_of THEN <<"Part-of">> ELSE <<>>)

\* C18: the trailers are written in the order Reviewed-by, Tested-by,
\* Part-of, each only when enabled; once add_trailers has returned, all the
\* enabled ones are written, and the rewritten sha (the one the method
\* returns) is the sha the last tag_with_trailer produced, or the updated
\* sha when no trailer is written.
C18_TrailerOrderAndRewrittenSha ==
    fn = "update_from_target_branch_and_push" =>
        /\ Len(TrailerNames) <= Len(EnabledTrailers)
        /\ TrailerNames = SubSeq(EnabledTrailers, 1, Len(TrailerNames))
        /\ loc.rewritten_sha # "unbound" =>
               /\ TrailerNames = EnabledTrailers
               /\ loc.rewritten_sha =
                      IF loc.trailers = <<>> THEN loc.updated_sha
                      ELSE loc.trailers[Len(loc.trailers)].sha

\* all three trailers written, each rewrite giving a new tip; the method
\* returned the third
C18_Witness ==
    /\ fn = "update_from_target_branch_and_push" /\ pc = "return"
    /\ Len(loc.trailers) = 3
    /\ loc.trailers[3].sha # loc.trailers[2].sha
    /\ loc.rewritten_sha = loc.trailers[3].sha
    /\ loc.rewritten_sha # loc.updated_sha

\* the Tested-by entries of the trailers written so far
TestedByWritten ==
    {i \in DOMAIN loc.trailers : loc.trailers[i].trailer_name = "Tested-by"}

\* add_tested is set, the project merges only when the pipeline succeeds,
\* and the strategy is exactly rebase
TestedByDue ==
    /\ opts.add_tested
    /\ project.only_allow_merge_if_pipeline_succeeds
    /\ opts.merge_strategy = "rebase"

\* C19: a Tested-by trailer is written only when add_tested is set, the
\* project has only_allow_merge_if_pipeline_succeeds and the strategy is
\* exactly rebase, and it is written whenever these hold and add_trailers
\* got past its Tested-by block; it starts at <source_branch>^, the last
\* commit of the source branch.
C19_TestedByOnlyOnRebase ==
    fn = "update_from_target_branch_and_push" =>
        /\ TestedByWritten # {} => TestedByDue
        /\ (pc = "part_of" \/ loc.rewritten_sha # "unbound") =>
               (TestedByDue => TestedByWritten # {})
        /\ \A i \in TestedByWritten :
               loc.trailers[i].start_commit = <<mr.source_branch, "^">>

\* the Tested-by block has just written its trailer
C19_Witness ==
    /\ fn = "update_from_target_branch_and_push" /\ pc = "part_of"
    /\ TestedByWritten # {}
    /\ opts.merge_strategy = "rebase"
    /\ loc.trailers[Len(loc.trailers)].start_commit = <<mr.source_branch, "^">>

\* the MR comes from another project than the one the job works on
FromFork == mr.source_project_id # project.id

\* what update_from_target_branch_and_push has, so far, fused and pushed with
UrlsUsed == {loc.fused_with, loc.pushed_to} \ {"unbound"}

\* C20: for an MR of a fork, by the time the job is in
\* update_from_target_branch_and_push (so before any fuse) the source
\* project was fetched by id and the repository fetched remote 'source' at
\* the fork's SSH URL, and every fuse and the push are given that URL; for
\* an MR of the project itself nothing is fetched, the remote is 'origin'
\* and the URL given on is None. No fuse or push happens during
\* fetch_source_project.
C20_SourceProjectPrepared ==
    /\ fn = "fetch_source_project" => UrlsUsed = {}
    /\ fn = "update_from_target_branch_and_push" =>
           IF FromFork
           THEN /\ loc.source_project = "fetched_by_id"
                /\ loc.remote = "source"
                /\ loc.fetched = <<"source", "git@fork">>
                /\ UrlsUsed \subseteq {"git@fork"}
           ELSE /\ loc.source_project = "self._project"
                /\ loc.remote = "origin"
                /\ loc.fetched = <<>>
                /\ loc.source_repo_url = "None"
                /\ UrlsUsed \subseteq {"None"}

\* the branch of a fork was fused and pushed
C20_Witness ==
    /\ fn = "update_from_target_branch_and_push" /\ pc = "return"
    /\ FromFork
    /\ loc.fetched = <<"source", "git@fork">>
    /\ loc.fused_with = "git@fork" /\ loc.pushed_to = "git@fork"
    /\ calls.push = 1

\* the settings ask for the merge strategy, one way or the other
MergeAsked == args.use_merge_strategy \/ args.merge_strategy = "merge"

\* _parse_config returned a configuration
Accepted ==
    \/ fn = "_parse_config" /\ pc = "return"
    \/ fn = "main"

\* C21: no configuration _parse_config returns has merge_strategy merge
\* together with batch or add_tested; when the parser took the arguments and
\* the strategy is merge, by --merge-strategy=merge or by
\* --use-merge-strategy, with --batch or --add-tested, _parse_config ends
\* with MargeBotCliArgError.
C21_MergeExcludesBatchAndTested ==
    /\ Accepted =>
           ~(config.merge_strategy = "merge" /\ (config.batch \/ config.add_tested))
    /\ fn = "main" =>
           ~(opts.merge_strategy = "merge" /\ (config.batch \/ opts.add_tested))
    /\ (/\ fn = "_parse_config" /\ pc \in {"return", "raise"}
        /\ Refused(args) = NoExc
        /\ MergeAsked /\ (args.batch \/ args.add_tested)) =>
           /\ exc.kind = "MargeBotCliArgError"
           /\ exc.reason \in
                {"--merge-strategy=merge and --batch are currently mutually exclusive",
                 "--merge-strategy=merge and --add-tested are currently mutually exclusive"}

\* --use-merge-strategy with --add-tested, and no --batch, was rejected
C21_Witness ==
    /\ fn = "_parse_config" /\ pc = "raise"
    /\ args.use_merge_strategy /\ args.add_tested /\ ~args.batch
    /\ exc = MargeBotCliArgError("--merge-strategy=merge and --add-tested are currently mutually exclusive")

\* C22: no configuration accepted by _parse_config, and none main builds
\* the bot with, has both batch and add_tested, whatever the strategy.
C22_BatchExcludesTested ==
    /\ Accepted => ~(config.batch /\ config.add_tested)
    /\ fn = "main" => ~(config.batch /\ opts.add_tested)

\* the cleanup calls that raised a GitError
FailedCleanups == {i \in DOMAIN loc.cleanup : ~loc.cleanup[i].ok}

\* C23: when checkout_branch('master') or remove_branch(source_branch) of the
\* cleanup raises a GitError, update_from_target_branch_and_push ends with
\* that GitError, which the job treats as fatal, whatever the try block
\* ended with (a successful push, a CannotMerge, anything else); after a
\* failed checkout of master remove_branch is not called.
C23_CleanupFailureReplacesOutcome ==
    /\ fn = "update_from_target_branch_and_push" =>
           \A i \in FailedCleanups :
               /\ i = Len(loc.cleanup)
               /\ pc = "raise"
               /\ exc = GitError(loc.cleanup[i].op)
               /\ Handling(exc) = "fatal"
    /\ fn = "update_from_target_branch_and_push" =>
           \A i \in DOMAIN loc.cleanup :
               loc.cleanup[i].op = "remove_branch" =>
                   /\ i = 2
                   /\ loc.cleanup[1] = Cleanup("checkout_branch", TRUE)

\* the push went through, master was checked out, and removing the source
\* branch failed
C23_Witness ==
    /\ UpdateEnded
    /\ loc.changes_pushed /\ loc.pending = NoExc
    /\ loc.cleanup = <<Cleanup("checkout_branch", TRUE), Cleanup("remove_branch", FALSE)>>
    /\ exc = GitError("remove_branch")

\* a CannotMerge of the try block was replaced by the GitError of a failed
\* checkout of master
C23_WitnessCannotMerge ==
    /\ UpdateEnded
    /\ loc.pending.kind = "CannotMerge"
    /\ loc.cleanup = <<Cleanup("checkout_branch", FALSE)>>
    /\ exc = GitError("checkout_branch")

\* C24: a call of update_from_target_branch_and_push pushes at most once,
\* the source branch and with force; when it pushes, the fuse has succeeded,
\* the updated sha differs from the sha of origin/<target>, and every
\* enabled trailer has been written; a normal return means exactly one
\* push, which succeeded.
C24_OnePushAfterRewrite ==
    fn = "update_from_target_branch_and_push" =>
        /\ Len(loc.pushes) <= 1
        /\ \A i \in DOMAIN loc.pushes :
               /\ loc.pushes[i].force
               /\ loc.pushes[i].branch = mr.source_branch
               /\ loc.branch_updated
               /\ loc.updated_sha \in Shas /\ loc.target_sha \in Shas
               /\ loc.updated_sha # loc.target_sha
               /\ TrailerNames = EnabledTrailers
               /\ loc.rewritten_sha \in Shas
        /\ (pc = "return" /\ exc = NoExc) =>
               /\ Len(loc.pushes) = 1
               /\ loc.pushes[1].ok
               /\ calls.push = 1
               /\ forge.head = loc.rewritten_sha

\* a normal return after two trailer rewrites and the push
C24_Witness ==
    /\ fn = "update_from_target_branch_and_push" /\ pc = "return"
    /\ exc = NoExc
    /\ Len(loc.trailers) = 2
    /\ loc.pushes = <<Push(mr, loc, TRUE)>>

\* the bare raise at the end of the handler: the GitError of the try block
\* would leave the handler as it is
BareRaise == loc.pending.kind = "GitError"

\* C25: in update_from_target_branch_and_push, branch_rewritten implies
\* branch_updated, and changes_pushed implies that the try block met no
\* GitError, so in the handler changes_pushed is false, the three flags are
\* never all true and the bare raise at its end is never reached; the
\* handler looks the branch up on the forge only after a push that failed
\* following a rewrite that changed the tip.
C25_HandlerFlags ==
    fn = "update_from_target_branch_and_push" =>
        /\ loc.branch_rewritten => loc.branch_updated
        /\ loc.changes_pushed => (loc.branch_updated /\ loc.git_error = "")
        /\ pc = "except" =>
               /\ loc.git_error # ""
               /\ ~loc.changes_pushed
               /\ ~(loc.branch_updated /\ loc.branch_rewritten /\ loc.changes_pushed)
        /\ ~BareRaise
        /\ loc.looked_up =>
               /\ loc.git_error = "push"
               /\ loc.pushes = <<Push(mr, loc, FALSE)>>
               /\ loc.branch_rewritten
               /\ loc.rewritten_sha \in Shas
               /\ loc.rewritten_sha # loc.updated_sha

\* the push of a rewritten tip failed and the handler found the branch
\* protected
C25_Witness ==
    /\ fn = "update_from_target_branch_and_push" /\ pc = "finally"
    /\ loc.looked_up
    /\ loc.git_error = "push"
    /\ loc.pending = CannotMerge(ProtectedBranch)

====
